---- MODULE Spec2Model ----
(***************************************************************************)
(* Model of rclone/server.go: an HTTP server whose auth middleware         *)
(* verifies a Google OIDC bearer token against a JWK set fetched at        *)
(* startup and whose single handler (GET /) runs one rclone sync from the  *)
(* GS bucket to the S3 bucket.                                             *)
(*                                                                         *)
(* Strings are modelled as sequences of symbols: a header is a sequence    *)
(* over "Bearer", "Basic", " " and raw token names; a raw token name       *)
(* decodes (JWT) to the header and claims it carries.  The two libraries   *)
(* the program calls (jwt-go, gorilla/mux) and the two external services   *)
(* (rclone backends, the JWKS endpoint) are modelled at the call sites:    *)
(* the libraries by what they compute, the services by a nondeterministic  *)
(* outcome.                                                                *)
(***************************************************************************)
EXTENDS Integers, Sequences, FiniteSets, TLC

VARIABLES
    mainpc,             \* position of main(): start, fetched, ready, serving, fatal
    fetchErr,           \* err of jwk.FetchHTTP: "pending", "nil", "err"
    jwtSet,             \* package variable jwtSet (<<>> while nil)
    gs, s3,             \* package variables read from the environment
    awsAccessKey, awsSecretAcessKey, awsRegion,
    myAudience,
    config,             \* rclone's config file: set of <<section, key, value>>
    conn                \* per connection: the request being served and its response

vars == <<mainpc, fetchErr, jwtSet, gs, s3, awsAccessKey, awsSecretAcessKey,
          awsRegion, myAudience, config, conn>>

env == <<gs, s3, awsAccessKey, awsSecretAcessKey, awsRegion, myAudience>>

------------------------------------------------------------------------------
(* Bounds and input sets *)

\* The wall clock reading (jwt.TimeFunc) at which tokens are verified.
Now == 2

\* Connections served concurrently (one goroutine per connection).
Conns == {"c1", "c2"}

\* Values an environment variable can hold: unset (empty) or set.
EnvValues(v) == {"", v}

\* HTTP status codes used by the program.
StatusOK == 200
StatusUnauthorized == 401
StatusNotFound == 404
StatusMethodNotAllowed == 405
StatusInternalServerError == 500

StatusText(code) ==
    CASE code = StatusUnauthorized -> "Unauthorized"
      [] code = StatusNotFound -> "Not Found"
      [] code = StatusMethodNotAllowed -> "Method Not Allowed"
      [] code = StatusInternalServerError -> "Internal Server Error"
      [] OTHER -> "OK"

------------------------------------------------------------------------------
(* The key set served by the JWKS endpoint *)

\* K1 has one key; K2 is published twice (ambiguous); K3's key material
\* cannot be materialized into a public key.
FetchedKeys ==
    << [kid |-> "K1", material |-> "m1"],
       [kid |-> "K2", material |-> "m2"],
       [kid |-> "K2", material |-> "m2b"],
       [kid |-> "K3", material |-> "corrupt"] >>

\* jwk.Set.LookupKeyID: every key of the set with that key id.
LookupKeyID(set, keyID) == SelectSeq(set, LAMBDA k : k.kid = keyID)

\* jwk.Key.Materialize: the public key, or an error.
Materialize(key) ==
    IF key.material = "corrupt"
    THEN [key |-> "", err |-> "failed to materialize"]
    ELSE [key |-> key.material, err |-> "nil"]

------------------------------------------------------------------------------
(* Raw tokens and what they decode to *)

\* A well-formed token signed by K1's key, valid now, for audience aud1.
BaseJWT ==
    [segments |-> 3, kidType |-> "string", kid |-> "K1", sig |-> "m1",
     exp |-> Now + 1, nbf |-> 0, iat |-> 0, aud |-> "aud1", email |-> "e1"]

RawTokens ==
    {"t_ok", "t_ok2", "t_aud", "t_nokid", "t_numkid", "t_unknown", "t_dup",
     "t_nomat", "t_badsig", "t_expired", "t_nbf", "t_iat", "t_malformed"}

\* Decoding of a raw token: the JOSE header and claim set it carries.
\* kidType: "string", "number" or "absent"; sig: the key material that
\* produced the signature; exp, nbf, iat: seconds, 0 when the claim is absent.
DecodeJWT(raw) ==
    CASE raw = "t_ok" -> BaseJWT
      [] raw = "t_ok2" -> [BaseJWT EXCEPT !.email = "e2"]
      [] raw = "t_aud" -> [BaseJWT EXCEPT !.aud = "aud2"]
      [] raw = "t_nokid" -> [BaseJWT EXCEPT !.kidType = "absent", !.kid = ""]
      [] raw = "t_numkid" -> [BaseJWT EXCEPT !.kidType = "number", !.kid = "K1"]
      [] raw = "t_unknown" -> [BaseJWT EXCEPT !.kid = "K9", !.sig = "m9"]
      [] raw = "t_dup" -> [BaseJWT EXCEPT !.kid = "K2", !.sig = "m2"]
      [] raw = "t_nomat" -> [BaseJWT EXCEPT !.kid = "K3", !.sig = "corrupt"]
      [] raw = "t_badsig" -> [BaseJWT EXCEPT !.sig = "m9"]
      [] raw = "t_expired" -> [BaseJWT EXCEPT !.exp = Now - 1]
      [] raw = "t_nbf" -> [BaseJWT EXCEPT !.nbf = Now + 1]
      [] raw = "t_iat" -> [BaseJWT EXCEPT !.iat = Now + 1]
      [] OTHER -> [BaseJWT EXCEPT !.segments = 2]

\* Authorization header values a client can send.
Headers ==
    { <<>>, <<"Basic", " ", "t_ok">>, <<"Bearer">>,
      <<"Bearer", " ", "t_ok", " ", "Bearer", " ", "t_badsig">> }
    \cup { <<"Bearer", " ", t>> : t \in RawTokens }

\* Method and path of a request: the registered route, another method,
\* another path.
Routes == { <<"GET", "/">>, <<"POST", "/">>, <<"GET", "/x">> }

------------------------------------------------------------------------------
(* strings.Split and strings.TrimSpace on symbol sequences *)

RECURSIVE SplitFrom(_, _, _)
\* Pieces of s between occurrences of sep; cur is the piece being read.
SplitFrom(s, sep, cur) ==
    IF s = <<>> THEN <<cur>>
    ELSE IF Head(s) = sep THEN <<cur>> \o SplitFrom(Tail(s), sep, <<>>)
    ELSE SplitFrom(Tail(s), sep, Append(cur, Head(s)))

Split(s, sep) == SplitFrom(s, sep, <<>>)

RECURSIVE TrimLeft(_)
TrimLeft(s) == IF s # <<>> /\ Head(s) = " " THEN TrimLeft(Tail(s)) ELSE s

RECURSIVE TrimRight(_)
TrimRight(s) ==
    IF s # <<>> /\ s[Len(s)] = " " THEN TrimRight(SubSeq(s, 1, Len(s) - 1)) ELSE s

TrimSpace(s) == TrimRight(TrimLeft(s))

------------------------------------------------------------------------------
(* Token verification *)

\* gcpIdentityDoc{}: the zero value.
EmptyDoc == [Email |-> "", Audience |-> "", ExpiresAt |-> 0]

\* getKey taking the first key whenever the lookup finds any (len(key) >= 1).
getKeyFirstMatch(token, set) ==
    IF token.kidType # "string"
    THEN [key |-> "", err |-> "expecting JWT header to have string kid"]
    ELSE LET key == LookupKeyID(set, token.kid)
         IN  IF Len(key) >= 1 THEN Materialize(key[1])
             ELSE [key |-> "", err |-> "unable to find key"]

\* getKey: the key the token's kid names, when it names exactly one.
getKey(token, set) ==
    IF token.kidType # "string"
    THEN [key |-> "", err |-> "expecting JWT header to have string kid"]
    ELSE LET key == LookupKeyID(set, token.kid)
         IN  IF Len(key) = 1 THEN Materialize(key[1])
             ELSE [key |-> "", err |-> "unable to find key"]

\* jwt.StandardClaims.Valid: exp, iat and nbf against the clock; a claim
\* that is absent (0) passes.
ClaimsValid(token, now) ==
    /\ (token.exp = 0 \/ now <= token.exp)
    /\ (token.iat = 0 \/ now >= token.iat)
    /\ (token.nbf = 0 \/ now >= token.nbf)

\* The signing method's Verify with the materialized key.
SignatureValid(token, key) == token.sig = key

\* jwt.ParseWithClaims(rawToken, &gcpIdentityDoc{}, getKey).
ParseWithClaims(tok, set) ==
    IF Len(tok) # 1 \/ tok[1] \notin RawTokens \/ DecodeJWT(tok[1]).segments # 3
    THEN [valid |-> FALSE, err |-> "malformed", claims |-> EmptyDoc]
    ELSE LET token == DecodeJWT(tok[1])
             claims == [Email |-> token.email, Audience |-> token.aud,
                        ExpiresAt |-> token.exp]
             k == getKey(token, set)
         IN  IF k.err # "nil"
             THEN [valid |-> FALSE, err |-> k.err, claims |-> claims]
             ELSE IF ~ClaimsValid(token, Now)
             THEN [valid |-> FALSE, err |-> "claims invalid", claims |-> claims]
             ELSE IF ~SignatureValid(token, k.key)
             THEN [valid |-> FALSE, err |-> "signature invalid", claims |-> claims]
             ELSE [valid |-> TRUE, err |-> "nil", claims |-> claims]

\* verifyGoogleIDToken returning the zero document on success.
verifyGoogleIDTokenZeroDoc(aud, rawToken, set) ==
    LET parsed == ParseWithClaims(rawToken, set)
    IN  [doc |-> EmptyDoc, err |-> parsed.err]

\* verifyGoogleIDToken: the identity document, or an error.  aud is
\* accepted and not used.
verifyGoogleIDToken(aud, rawToken, set) ==
    LET parsed == ParseWithClaims(rawToken, set)
    IN  IF parsed.err # "nil" THEN [doc |-> EmptyDoc, err |-> parsed.err]
        ELSE IF parsed.valid THEN [doc |-> parsed.claims, err |-> "nil"]
        ELSE [doc |-> EmptyDoc, err |-> "Error parsing JWT Claims"]

------------------------------------------------------------------------------
(* Requests *)

\* A connection with no request on it.
Idle ==
    [state |-> "idle", authHeader |-> <<>>, method |-> "", path |-> "",
     ctx |-> <<>>, status |-> 0, body |-> "", panicked |-> FALSE,
     nextCalls |-> 0, handlerCalls |-> 0, syncCalls |-> 0,
     srcErr |-> FALSE, destErr |-> FALSE, syncErr |-> FALSE]

\* http.Error(w, StatusText(code), code): the response is complete.
HttpError(r, code) ==
    [r EXCEPT !.state = "done", !.status = code, !.body = StatusText(code)]

\* A router registered without Methods(http.MethodGet).
RouterAnyMethod(r) ==
    IF r.path # "/" THEN HttpError(r, StatusNotFound)
    ELSE [r EXCEPT !.state = "newfs_src", !.handlerCalls = @ + 1]

\* The mux router built in main: GET on "/" reaches defaulthandler; the
\* handler's first call, fs.NewFs for the source, is then in progress.
Router(r) ==
    IF r.path # "/" THEN HttpError(r, StatusNotFound)
    ELSE IF r.method # "GET" THEN HttpError(r, StatusMethodNotAllowed)
    ELSE [r EXCEPT !.state = "newfs_src", !.handlerCalls = @ + 1]

\* The middleware without its empty-header check.
HeaderMissingUnchecked(authHeader) == FALSE

\* authHeader == "".
HeaderMissing(authHeader) == authHeader = <<>>

\* A panic in the handler goroutine: net/http recovers it and closes the
\* connection; no status line is written.
Panic(r) == [r EXCEPT !.state = "done", !.panicked = TRUE]

\* authMiddleware(router): from the header check to the call of the router.
authMiddleware(r, aud, set) ==
    IF HeaderMissing(r.authHeader) THEN HttpError(r, StatusUnauthorized)
    ELSE LET splitToken == Split(r.authHeader, "Bearer")
         IN  IF Len(splitToken) > 0
             THEN IF Len(splitToken) < 2 THEN Panic(r)    \* splitToken[1]
                  ELSE LET tok == TrimSpace(splitToken[2])
                           v == verifyGoogleIDToken(aud, tok, set)
                       IN  IF v.err # "nil"
                           THEN HttpError(r, StatusUnauthorized)
                           ELSE Router([r EXCEPT !.ctx = <<v.doc>>,
                                                 !.nextCalls = @ + 1])
             ELSE HttpError(r, StatusUnauthorized)

------------------------------------------------------------------------------
(* main *)

Init ==
    /\ mainpc = "start"
    /\ fetchErr = "pending"
    /\ jwtSet = <<>>
    /\ gs \in EnvValues("src-bucket")
    /\ s3 \in EnvValues("dst-bucket")
    /\ awsAccessKey \in EnvValues("key")
    /\ awsSecretAcessKey \in EnvValues("secret")
    /\ awsRegion \in EnvValues("region")
    /\ myAudience \in EnvValues("aud1")
    /\ config = {}
    /\ conn = [c \in Conns |-> Idle]

\* jwk.FetchHTTP(jwksURL) and the log.Fatal on its error.
FetchKeys ==
    /\ mainpc = "start"
    /\ \E ok \in BOOLEAN :
         IF ok
         THEN /\ jwtSet' = FetchedKeys
              /\ fetchErr' = "nil"
              /\ mainpc' = "fetched"
         ELSE /\ jwtSet' = <<>>
              /\ fetchErr' = "err"
              /\ mainpc' = "fatal"
    /\ UNCHANGED <<env, config, conn>>

\* The environment check without the s3 operand.
EnvMissingNoS3(aud, src, dst) == aud = "" \/ src = ""

\* myAudience == "" || gs == "" || s3 == "".
EnvMissing(aud, src, dst) == aud = "" \/ src = "" \/ dst = ""

\* The backend configuration with the secret key taken from the access key.
ConfigureBackendsSwapped(accessKey, secretKey, region) ==
    { <<"gs", "type", "google cloud storage">>,
      <<"gs", "bucket_policy_only", "true">>,
      <<"s3", "type", "s3">>,
      <<"s3", "provider", "AWS">>,
      <<"s3", "env_auth", "false">>,
      <<"s3", "access_key_id", accessKey>>,
      <<"s3", "secret_access_key", accessKey>>,
      <<"s3", "region", region>>,
      <<"s3", "acl", "private">>,
      <<"s3", "bucket_acl", "private">> }

\* The fs.ConfigFileSet calls of main.
ConfigureBackends(accessKey, secretKey, region) ==
    { <<"gs", "type", "google cloud storage">>,
      <<"gs", "bucket_policy_only", "true">>,
      <<"s3", "type", "s3">>,
      <<"s3", "provider", "AWS">>,
      <<"s3", "env_auth", "false">>,
      <<"s3", "access_key_id", accessKey>>,
      <<"s3", "secret_access_key", secretKey>>,
      <<"s3", "region", region>>,
      <<"s3", "acl", "private">>,
      <<"s3", "bucket_acl", "private">> }

\* The environment check, the backend configuration and the router setup.
Configure ==
    /\ mainpc = "fetched"
    /\ IF EnvMissing(myAudience, gs, s3)
       THEN /\ mainpc' = "fatal"
            /\ config' = config
       ELSE /\ mainpc' = "ready"
            /\ config' = ConfigureBackends(awsAccessKey, awsSecretAcessKey, awsRegion)
    /\ UNCHANGED <<fetchErr, jwtSet, env, conn>>

\* server.ListenAndServe(): the listener opens, or log.Fatal.
ListenAndServe ==
    /\ mainpc = "ready"
    /\ \E ok \in BOOLEAN : mainpc' = IF ok THEN "serving" ELSE "fatal"
    /\ UNCHANGED <<fetchErr, jwtSet, env, config, conn>>

------------------------------------------------------------------------------
(* Serving *)

\* A request arrives on an idle connection.
Arrive(c) ==
    /\ mainpc = "serving"
    /\ conn[c].state = "idle"
    /\ \E h \in Headers, rt \in Routes :
         conn' = [conn EXCEPT ![c] =
                    [Idle EXCEPT !.state = "middleware", !.authHeader = h,
                                 !.method = rt[1], !.path = rt[2]]]
    /\ UNCHANGED <<mainpc, fetchErr, jwtSet, env, config>>

\* The middleware runs on the request, up to the handler's first blocking call.
AuthMiddleware(c) ==
    /\ conn[c].state = "middleware"
    /\ conn' = [conn EXCEPT ![c] = authMiddleware(conn[c], myAudience, jwtSet)]
    /\ UNCHANGED <<mainpc, fetchErr, jwtSet, env, config>>

\* defaulthandler after fs.NewFs("gs:...") returned err.
AfterNewFsSrc(r, err) ==
    IF err THEN HttpError([r EXCEPT !.srcErr = TRUE], StatusInternalServerError)
    ELSE [r EXCEPT !.state = "newfs_dest"]

\* defaulthandler without the return after the destination's error response.
AfterNewFsDestNoReturn(r, err) ==
    IF err THEN [r EXCEPT !.destErr = TRUE, !.state = "call_sync",
                          !.status = StatusInternalServerError,
                          !.body = StatusText(StatusInternalServerError)]
    ELSE [r EXCEPT !.state = "call_sync"]

\* defaulthandler after fs.NewFs("s3:...") returned err.
AfterNewFsDest(r, err) ==
    IF err THEN HttpError([r EXCEPT !.destErr = TRUE], StatusInternalServerError)
    ELSE [r EXCEPT !.state = "call_sync"]

\* defaulthandler after sync.Sync returned err.
AfterSync(r, err) ==
    IF err THEN HttpError([r EXCEPT !.syncErr = TRUE], StatusInternalServerError)
    ELSE [r EXCEPT !.state = "done", !.status = StatusOK, !.body = "ok"]

NewFsSrc(c) ==
    /\ conn[c].state = "newfs_src"
    /\ \E err \in BOOLEAN : conn' = [conn EXCEPT ![c] = AfterNewFsSrc(conn[c], err)]
    /\ UNCHANGED <<mainpc, fetchErr, jwtSet, env, config>>

NewFsDest(c) ==
    /\ conn[c].state = "newfs_dest"
    /\ \E err \in BOOLEAN : conn' = [conn EXCEPT ![c] = AfterNewFsDest(conn[c], err)]
    /\ UNCHANGED <<mainpc, fetchErr, jwtSet, env, config>>

\* The sync call behind a single-flight guard: it waits while another
\* connection's sync is in flight.
SyncStartSingleFlight(c) ==
    /\ conn[c].state = "call_sync"
    /\ \A d \in Conns \ {c} : conn[d].state # "syncing"
    /\ conn' = [conn EXCEPT ![c] = [@ EXCEPT !.state = "syncing", !.syncCalls = @ + 1]]
    /\ UNCHANGED <<mainpc, fetchErr, jwtSet, env, config>>

\* sync.Sync(r.Context(), fdest, fsrc, false) is called: the transfer starts.
SyncStart(c) ==
    /\ conn[c].state = "call_sync"
    /\ conn' = [conn EXCEPT ![c] = [@ EXCEPT !.state = "syncing", !.syncCalls = @ + 1]]
    /\ UNCHANGED <<mainpc, fetchErr, jwtSet, env, config>>

\* sync.Sync returns.
SyncReturn(c) ==
    /\ conn[c].state = "syncing"
    /\ \E err \in BOOLEAN : conn' = [conn EXCEPT ![c] = AfterSync(conn[c], err)]
    /\ UNCHANGED <<mainpc, fetchErr, jwtSet, env, config>>

\* The response is sent (or the connection closed); the connection is free.
Finish(c) ==
    /\ conn[c].state = "done"
    /\ conn' = [conn EXCEPT ![c] = Idle]
    /\ UNCHANGED <<mainpc, fetchErr, jwtSet, env, config>>

Next ==
    \/ FetchKeys
    \/ Configure
    \/ ListenAndServe
    \/ \E c \in Conns : Arrive(c)
    \/ \E c \in Conns : AuthMiddleware(c)
    \/ \E c \in Conns : NewFsSrc(c)
    \/ \E c \in Conns : NewFsDest(c)
    \/ \E c \in Conns : SyncStart(c)
    \/ \E c \in Conns : SyncReturn(c)
    \/ \E c \in Conns : Finish(c)

Spec == Init /\ [][Next]_vars

------------------------------------------------------------------------------
(* What a request carries, read from the request alone *)

\* The request on connection c.
Req(c) == conn[c]

\* The header contains the bearer scheme marker.
HasBearerMarker(h) == \E i \in DOMAIN h : h[i] = "Bearer"

\* The header has the form "Bearer <token>...", and the token is a JWT.
CarriesJWT(h) ==
    /\ Len(h) >= 3 /\ h[1] = "Bearer" /\ h[2] = " "
    /\ h[3] \in RawTokens
    /\ DecodeJWT(h[3]).segments = 3

\* The JWT of such a header.
JWTOf(h) == DecodeJWT(h[3])

\* Keys of the key set whose key id is the token's kid.
KeysFor(t) == { i \in DOMAIN jwtSet : jwtSet[i].kid = t.kid }

\* The token names, by a string kid, exactly one key of the key set.
KidResolves(t) == t.kidType = "string" /\ Cardinality(KeysFor(t)) = 1

\* The token's signature was made with a usable key published under its kid.
SignatureCorrect(t) ==
    \E i \in KeysFor(t) : jwtSet[i].material = t.sig /\ jwtSet[i].material # "corrupt"

ExpInFuture(t) == t.exp > Now
ExpInPast(t) == t.exp # 0 /\ t.exp < Now
NotBeforeSatisfied(t) == t.nbf = 0 \/ t.nbf <= Now
IssuedAtSatisfied(t) == t.iat = 0 \/ t.iat <= Now

\* One of the failures of verification: no string kid, a kid matching zero
\* or several keys, an incorrect signature, an exp in the past.
FailsVerification(t) ==
    \/ t.kidType # "string"
    \/ Cardinality(KeysFor(t)) # 1
    \/ ~SignatureCorrect(t)
    \/ ExpInPast(t)

\* Resolvable kid, correct signature, exp in the future.
SignedAndUnexpired(t) == KidResolves(t) /\ SignatureCorrect(t) /\ ExpInFuture(t)

\* ... and the other time claims satisfied.
FullyValid(t) ==
    SignedAndUnexpired(t) /\ NotBeforeSatisfied(t) /\ IssuedAtSatisfied(t)

\* The request was rejected by the middleware with the generic 401.
Rejected401(r) ==
    /\ r.status = StatusUnauthorized
    /\ r.body = "Unauthorized"
    /\ ~r.panicked

\* Nothing downstream of the middleware ran for the request.
NothingDownstream(r) ==
    /\ r.nextCalls = 0 /\ r.handlerCalls = 0 /\ r.syncCalls = 0
    /\ r.ctx = <<>>
    /\ r.state \in {"middleware", "done"}

------------------------------------------------------------------------------
(* Claims *)

\* C1: a request without an Authorization header is answered 401
\* Unauthorized and neither the router, the handler nor the sync engine is
\* ever invoked for it.
C1_MissingHeaderRejected ==
    \A c \in Conns :
        (Req(c).state # "idle" /\ Req(c).authHeader = <<>>) =>
            /\ NothingDownstream(Req(c))
            /\ Req(c).state = "done" => Rejected401(Req(c))

C1_Witness ==
    \E c \in Conns :
        /\ Req(c).state = "done" /\ Req(c).authHeader = <<>>
        /\ Req(c).status = StatusUnauthorized

\* C2: a request whose Authorization header is non-empty and lacks the
\* "Bearer" marker completes with the generic 401, without a panic and
\* without the downstream handler.
C2_NoBearerMarkerRejected ==
    \A c \in Conns :
        (/\ Req(c).state = "done"
         /\ Req(c).authHeader # <<>>
         /\ ~HasBearerMarker(Req(c).authHeader)) =>
            /\ Rejected401(Req(c))
            /\ NothingDownstream(Req(c))

\* C3: a request whose bearer token fails verification (no string kid, kid
\* matching zero or several keys, incorrect signature, exp in the past):
\* verifyGoogleIDToken returns an error and the zero document, the response
\* is the generic 401 and nothing downstream runs.
C3_FailedVerificationRejected ==
    \A c \in Conns :
        (/\ Req(c).state # "idle"
         /\ CarriesJWT(Req(c).authHeader)
         /\ FailsVerification(JWTOf(Req(c).authHeader))) =>
            /\ LET v == verifyGoogleIDToken(myAudience,
                                            <<Req(c).authHeader[3]>>, jwtSet)
               IN  v.err # "nil" /\ v.doc = EmptyDoc
            /\ NothingDownstream(Req(c))
            /\ Req(c).state = "done" => Rejected401(Req(c))

C3_Witness ==
    /\ \E c \in Conns :
        /\ Req(c).state = "done"
        /\ Req(c).authHeader = <<"Bearer", " ", "t_dup">>
        /\ Rejected401(Req(c))
    /\ \E c \in Conns :
        /\ Req(c).state = "done"
        /\ Req(c).authHeader = <<"Bearer", " ", "t_expired">>
        /\ Rejected401(Req(c))

\* C4: a request whose token is validly signed and unexpired and whose
\* audience differs from AUDIENCE is answered 401 and never reaches the
\* handler.
C4_AudienceEnforced ==
    \A c \in Conns :
        (/\ Req(c).state # "idle"
         /\ CarriesJWT(Req(c).authHeader)
         /\ FullyValid(JWTOf(Req(c).authHeader))
         /\ JWTOf(Req(c).authHeader).aud # myAudience) =>
            /\ Req(c).handlerCalls = 0
            /\ Req(c).state = "done" => Req(c).status = StatusUnauthorized

\* What C5 promises of an accepted GET / request with token t.
AcceptedAndServed(r, t) ==
    /\ r.state # "middleware" =>
          /\ Len(r.ctx) = 1 /\ r.ctx[1].Email = t.email
          /\ r.nextCalls = 1
          /\ r.handlerCalls = 1
    /\ (r.state = "done" /\ ~r.srcErr /\ ~r.destErr /\ ~r.syncErr) =>
          /\ r.status = StatusOK /\ r.body = "ok"

\* C5 as stated: every GET / request whose token has a kid mapped to exactly
\* one key, a valid signature and an exp in the future is accepted, carries
\* the token's email in its context, reaches the handler exactly once and
\* gets 200 "ok" when the backends and the sync succeed.
C5_AsStated ==
    \A c \in Conns :
        (/\ Req(c).state # "idle"
         /\ Req(c).method = "GET" /\ Req(c).path = "/"
         /\ CarriesJWT(Req(c).authHeader)
         /\ SignedAndUnexpired(JWTOf(Req(c).authHeader))) =>
            AcceptedAndServed(Req(c), JWTOf(Req(c).authHeader))

\* C5 (amended): the same, for tokens whose nbf and iat claims, when
\* present, are not in the future either.
C5_ValidTokenAccepted ==
    \A c \in Conns :
        (/\ Req(c).state # "idle"
         /\ Req(c).method = "GET" /\ Req(c).path = "/"
         /\ CarriesJWT(Req(c).authHeader)
         /\ FullyValid(JWTOf(Req(c).authHeader))) =>
            AcceptedAndServed(Req(c), JWTOf(Req(c).authHeader))

C5_Witness ==
    \E c \in Conns :
        /\ Req(c).state = "done"
        /\ Req(c).authHeader = <<"Bearer", " ", "t_ok2">>
        /\ Req(c).ctx[1].Email = "e2"
        /\ Req(c).status = StatusOK /\ Req(c).body = "ok"

\* C6: main reaches the serving state only after a successful key fetch
\* and with audience, GS and S3 non-empty; after a failed fetch or with one
\* of the three absent the process is fatal, and no request is handled
\* unless the process serves.
C6_StartupGating ==
    /\ mainpc \in {"ready", "serving"} =>
          /\ fetchErr = "nil" /\ jwtSet # <<>>
          /\ myAudience # "" /\ gs # "" /\ s3 # ""
    /\ fetchErr = "err" => mainpc = "fatal"
    /\ (mainpc \notin {"start", "fetched"}
        /\ (myAudience = "" \/ gs = "" \/ s3 = "")) => mainpc = "fatal"
    /\ \A c \in Conns : Req(c).state # "idle" => mainpc = "serving"

C6_Witness ==
    /\ mainpc = "serving"
    /\ \E c \in Conns : Req(c).state = "done" /\ Req(c).status = StatusOK

\* The value the rclone config holds for a key of a section.
ConfigValues(section, key) == { e[3] : e \in { x \in config : x[1] = section /\ x[2] = key } }

\* C7 as stated: whenever the process serves, the destination access key,
\* secret key and region are non-empty.
C7_AsStated ==
    mainpc = "serving" =>
        awsAccessKey # "" /\ awsSecretAcessKey # "" /\ awsRegion # ""

\* C7 (amended): whenever the process serves, the source and destination
\* identifiers are non-empty and the s3 section of the rclone config holds
\* the access key, secret key and region exactly as the environment gave
\* them, empty or not.
C7_ConfigFromEnvironment ==
    mainpc = "serving" =>
        /\ gs # "" /\ s3 # ""
        /\ ConfigValues("s3", "access_key_id") = {awsAccessKey}
        /\ ConfigValues("s3", "secret_access_key") = {awsSecretAcessKey}
        /\ ConfigValues("s3", "region") = {awsRegion}

C7_Witness ==
    /\ mainpc = "serving"
    /\ awsSecretAcessKey = ""
    /\ \E c \in Conns : Req(c).state = "done" /\ Req(c).destErr

\* C8: a failed backend construction gives 500 and no sync; a failed sync
\* gives 500; the sync engine is called at most once per request; "ok" is
\* never the body of an error response.
C8_HandlerErrors ==
    \A c \in Conns :
        /\ (Req(c).srcErr \/ Req(c).destErr) =>
              /\ Req(c).state = "done"
              /\ Req(c).status = StatusInternalServerError
              /\ Req(c).syncCalls = 0
        /\ Req(c).syncErr =>
              /\ Req(c).state = "done"
              /\ Req(c).status = StatusInternalServerError
              /\ Req(c).syncCalls = 1
        /\ Req(c).syncCalls <= 1
        /\ Req(c).body = "ok" => Req(c).status = StatusOK
        /\ Req(c).status = StatusInternalServerError =>
              Req(c).body = "Internal Server Error"

C8_Witness ==
    /\ \E c \in Conns : Req(c).state = "done" /\ Req(c).destErr
    /\ \E c \in Conns : Req(c).state = "done" /\ Req(c).syncErr

\* Every blocking call of the handler can be made and can return whatever
\* the other connection does: nothing waits for a lock or for another sync.
HandlerNeverWaits ==
    \A c \in Conns :
        /\ Req(c).state = "newfs_src" => ENABLED NewFsSrc(c)
        /\ Req(c).state = "newfs_dest" => ENABLED NewFsDest(c)
        /\ Req(c).state = "call_sync" => ENABLED SyncStart(c)
        /\ Req(c).state = "syncing" => ENABLED SyncReturn(c)

\* A step of one request leaves every other request as it is.
OthersUntouched ==
    \A c \in Conns :
        conn'[c] # conn[c] => \A d \in Conns \ {c} : conn'[d] = conn[d]

\* The outcomes open to a request at its next step, from the request alone.
OwnOutcomes(r) ==
    CASE r.state = "middleware" -> {authMiddleware(r, myAudience, jwtSet)}
      [] r.state = "newfs_src" -> {AfterNewFsSrc(r, e) : e \in BOOLEAN}
      [] r.state = "newfs_dest" -> {AfterNewFsDest(r, e) : e \in BOOLEAN}
      [] r.state = "call_sync" ->
            {[r EXCEPT !.state = "syncing", !.syncCalls = @ + 1]}
      [] r.state = "syncing" -> {AfterSync(r, e) : e \in BOOLEAN}
      [] OTHER -> {}

\* A step of a request in progress leads to one of its own outcomes.
OwnOutcome ==
    \A c \in Conns :
        (conn'[c] # conn[c] /\ conn[c].state \notin {"idle", "done"}) =>
            conn'[c] \in OwnOutcomes(conn[c])

\* C9: concurrent requests proceed independently to the sync engine: no
\* handler step waits for another request (there is no lock or single-flight
\* guard around the sync), no step of one request changes another, and the
\* outcome of a step depends on the request alone.
C9_NoCoordination ==
    []HandlerNeverWaits /\ [][OthersUntouched /\ OwnOutcome]_vars

C9_Witness ==
    \A c \in Conns : Req(c).state = "syncing" /\ Req(c).syncCalls = 1

\* A request that reached the handler, the sync engine or the 200 "ok".
Triggered(r) ==
    r.handlerCalls > 0 \/ r.syncCalls > 0 \/ r.status = StatusOK \/ r.body = "ok"

\* The sync engine is invoked only for verified GET / requests; a verified
\* request on another method or path passes the middleware and gets the
\* router's error.
OnlyVerifiedGetRootSyncs ==
    \A c \in Conns :
        /\ Triggered(Req(c)) =>
              /\ CarriesJWT(Req(c).authHeader)
              /\ FullyValid(JWTOf(Req(c).authHeader))
              /\ Req(c).ctx # <<>>
              /\ Req(c).method = "GET" /\ Req(c).path = "/"
        /\ (/\ Req(c).state = "done"
            /\ CarriesJWT(Req(c).authHeader)
            /\ FullyValid(JWTOf(Req(c).authHeader))
            /\ ~(Req(c).method = "GET" /\ Req(c).path = "/")) =>
              /\ Req(c).nextCalls = 1 /\ Req(c).ctx # <<>>
              /\ ~Triggered(Req(c))
              /\ Req(c).status \in {StatusNotFound, StatusMethodNotAllowed}

\* The sync of a request starts only from a state in which its identity is
\* already attached.
SyncAfterVerification ==
    \A c \in Conns :
        conn'[c].syncCalls > conn[c].syncCalls =>
            conn[c].ctx # <<>> /\ conn[c].nextCalls = 1

\* C10: over every interleaving, a sync is triggered only by a request
\* that passed verification and is a GET on "/", and never before that
\* request's verification.
C10_SyncOnlyAfterAuthOnGetRoot ==
    []OnlyVerifiedGetRootSyncs /\ [][SyncAfterVerification]_vars

C10_Witness ==
    /\ \E c \in Conns :
        /\ Req(c).state = "done" /\ Req(c).method = "POST"
        /\ Req(c).authHeader = <<"Bearer", " ", "t_ok">>
        /\ Req(c).status = StatusMethodNotAllowed
    /\ \E c \in Conns : Req(c).state = "syncing" /\ Req(c).method = "GET"

====
